---- MODULE Spec2Model ----
(***************************************************************************)
(* Model of the NearTotalRecall skill (src/src/__init__.py).               *)
(*                                                                         *)
(* A Python value that may be None is an Option: None is the empty         *)
(* sequence, a value x is <<x>>.  Row indices are 1-based here (0-based   *)
(* in the source).  Embedding vectors are integer pairs (tenths), so the   *)
(* dot product of line 114 is computed exactly.                            *)
(*                                                                         *)
(* Spec       the skill as shipped: the host constructs it (__init__),     *)
(*            merges the defaults (initialize) and dispatches intents.     *)
(* SpecLoaded the methods applied to an instance whose fields hold any of  *)
(*            the values lines 38-69 can assign to them.                   *)
(***************************************************************************)
EXTENDS Integers, Sequences, FiniteSets, TLC

VARIABLES
    env,                  \* the host side: supplied settings, what each load yields
    settings,             \* self.settings (a jsondb)
    initialized,          \* initialize() has run
    pc,                   \* "new", "constructed" or "raised" (__init__ raised)
    cleaned_data,         \* Option of a table: sequence of Timestamps
    embeddings,           \* Option of a matrix: sequence of vectors
    original_data,        \* Option of a table: sequence of [Timestamp, Memory_Description]
    model,                \* Option of the embedding model
    top_n,                \* Option of an integer
    similarity_threshold, \* Option of a number
    argsortTies,          \* how this build's np.argsort orders equal elements
    last                  \* the last call: how it ended, what it handed to speak_dialog

vars == <<env, settings, initialized, pc, cleaned_data, embeddings, original_data,
          model, top_n, similarity_threshold, argsortTies, last>>

loaded == <<cleaned_data, embeddings, original_data, model, top_n, similarity_threshold>>

----------------------------------------------------------------------------
(* Bounds *)

MaxRows == 3
MaxOrigRows == 2
MaxTopN == 3

----------------------------------------------------------------------------
(* Values *)

None == <<>>

Some(x) == <<x>>

Min(a, b) == IF a <= b THEN a ELSE b

SettingKeys == {"cleaned_data_path", "embeddings_path", "original_data_path",
                "top_n", "similarity_threshold", "model_name"}

DEFAULT_top_n == 5

DEFAULT_similarity_threshold == 5

DEFAULT_SETTINGS ==
    [k \in SettingKeys |->
        CASE k = "cleaned_data_path" -> "/path/to/cleaned_memories.csv"
          [] k = "embeddings_path" -> "/path/to/memory_embeddings.npy"
          [] k = "original_data_path" -> "/path/to/MeePiMemories.csv"
          [] k = "top_n" -> DEFAULT_top_n
          [] k = "similarity_threshold" -> DEFAULT_similarity_threshold
          [] k = "model_name" -> "all-MiniLM-L6-v2"]

Timestamps == {"T1", "T2"}

Descriptions == {"birthday party", "picnic"}

Vectors == {<<10, 0>>, <<0, 10>>, <<7, 7>>}

Queries == {"", "left"}

\* self.model.encode([query]): a deterministic map from text to a vector
Encode(query) ==
    CASE query = "" -> <<7, 7>>
      [] query = "left" -> <<10, 0>>

SeqsUpTo(S, n) == UNION {[1..k -> S] : k \in 0..n}

----------------------------------------------------------------------------
(* find_closest_memory, lines 102-121 *)

Returned(v) == [status |-> "return", exc |-> "", value |-> v]

Raised(e) == [status |-> "raise", exc |-> e, value |-> <<>>]

Dot(u, v) == u[1] * v[1] + u[2] * v[2]

Reverse(s) == [i \in 1..Len(s) |-> s[Len(s) + 1 - i]]

\* Python's seq[:k]; k = None keeps everything, k < 0 drops the last -k
Take(s, k) ==
    IF k = None THEN s
    ELSE IF k[1] >= 0 THEN SubSeq(s, 1, Min(k[1], Len(s)))
    ELSE SubSeq(s, 1, Len(s) + k[1])

\* np.argsort(a): the indices in ascending order of a.  The default kind is
\* not a stable sort, so the order of equal elements depends on the build;
\* it is the same on every call of one build.
Before(a, i, j) ==
    \/ a[i] < a[j]
    \/ a[i] = a[j] /\ IF argsortTies = "low_first" THEN i < j ELSE i > j

\* the index at position p is the one with p - 1 indices before it
argsort(a) ==
    [p \in DOMAIN a |->
        CHOOSE i \in DOMAIN a : Cardinality({j \in DOMAIN a : Before(a, j, i)}) = p - 1]

\* line 106 with `and` in place of `or`
DataNotLoadedBoth == cleaned_data = None /\ embeddings = None

\* line 106
DataNotLoaded == cleaned_data = None \/ embeddings = None

\* line 114
similarities(query) ==
    [i \in 1..Len(embeddings[1]) |-> Dot(embeddings[1][i], Encode(query))]

\* The only(S) of a one-element set S is its element.  An intermediate value
\* is bound as x \in {e}, which makes TLC compute e once.
only(S) == CHOOSE x \in S : TRUE

\* line 117: np.argsort(similarities)[::-1][:self.top_n]
top_n_indices(sim) == only({Take(Reverse(order), top_n) : order \in {argsort(sim)}})

\* lines 118-119
results(sim, idx) ==
    [p \in 1..Len(idx) |->
        [score |-> sim[idx[p]], row |-> idx[p], Timestamp |-> cleaned_data[1][idx[p]]]]

\* The tests after the first are what the statements of lines 111-119 do
\* on a missing model (None.encode), a missing matrix (np.dot of None), a
\* missing table (None.iloc) and a row index beyond the table (iloc[i]).
find_closest_memory(query) ==
    IF DataNotLoaded THEN Returned(<<>>)
    ELSE IF model = None THEN Raised("AttributeError")
    ELSE IF embeddings = None THEN Raised("TypeError")
    ELSE only({only({IF idx = <<>> THEN Returned(<<>>)
                     ELSE IF cleaned_data = None THEN Raised("AttributeError")
                     ELSE IF \E p \in DOMAIN idx : idx[p] > Len(cleaned_data[1])
                          THEN Raised("IndexError")
                     ELSE Returned(results(sim, idx))
                     : idx \in {top_n_indices(sim)}})
               : sim \in {similarities(query)}})

----------------------------------------------------------------------------
(* recall_full_memory, lines 123-139 *)

\* line 132: the rows whose Timestamp equals memory_id
memory_row(memory_id) ==
    {i \in DOMAIN original_data[1] : original_data[1][i].Timestamp = memory_id}

\* line 136 taking the last matching row
ilocLast(rows) == CHOOSE i \in rows : \A j \in rows : i >= j

\* line 136: memory_row.iloc[0]
iloc0(rows) == CHOOSE i \in rows : \A j \in rows : i <= j

recall_full_memory(memory_id) ==
    IF original_data = None THEN None
    ELSE IF memory_row(memory_id) # {}
         THEN Some(original_data[1][iloc0(memory_row(memory_id))].Memory_Description)
    ELSE None

----------------------------------------------------------------------------
(* handle_do_you_recall_intent, lines 141-154 *)

Dialog(name, memory) == [dialog |-> name, memory |-> memory]

\* the record of a call: how it ended, what it returned, what it spoke
Call(op, arg, status, exc, value, speak) ==
    [op |-> op, arg |-> arg, status |-> status, exc |-> exc, value |-> value, speak |-> speak]

NoCall == Call("", "", "return", "", <<>>, None)

\* line 149 with the test inverted
Falsy(list) == list = <<>>

\* line 149: `if results`
Truthy(list) == list # <<>>

\* what the handler does on a query: how it ends and what it speaks
\* `memory = results[0]` raises IndexError on an empty list
recall_intent(query) ==
    only({IF found.status = "raise"
          THEN Call("handle_do_you_recall_intent", query, "raise", found.exc, <<>>, None)
          ELSE IF Truthy(found.value)
               THEN IF found.value = <<>>
                    THEN Call("handle_do_you_recall_intent", query, "raise", "IndexError",
                              found.value, None)
                    ELSE Call("handle_do_you_recall_intent", query, "return", "", found.value,
                              Some(Dialog("recite_memory",
                                          recall_full_memory(found.value[1].Timestamp))))
          ELSE Call("handle_do_you_recall_intent", query, "return", "", found.value,
                    Some(Dialog("no_memory_found", None)))
          : found \in {find_closest_memory(query)}})

\* the handler keeping only the rows it has not recited yet
handle_and_forget(query) ==
    /\ pc = "constructed"
    /\ \E out \in {recall_intent(query)} :
          /\ last' = out
          /\ top_n' = IF out.value # <<>> THEN Some(Len(out.value) - 1) ELSE top_n
    /\ UNCHANGED <<env, settings, initialized, pc, cleaned_data, embeddings, original_data,
                   model, similarity_threshold, argsortTies>>

handle_do_you_recall_intent(query) ==
    /\ pc = "constructed"
    /\ last' = recall_intent(query)
    /\ UNCHANGED <<env, settings, initialized, pc, loaded, argsortTies>>

\* lines 156-165
handle_robotic_laws_intent ==
    /\ pc = "constructed"
    /\ last' = Call("handle_robotic_laws_intent", "", "return", "", <<>>,
                    Some(Dialog("robotics", None)))
    /\ UNCHANGED <<env, settings, initialized, pc, loaded, argsortTies>>

\* a direct call of find_closest_memory
call_find_closest_memory(query) ==
    /\ pc = "constructed"
    /\ \E out \in {find_closest_memory(query)} :
          last' = Call("find_closest_memory", query, out.status, out.exc, out.value, None)
    /\ UNCHANGED <<env, settings, initialized, pc, loaded, argsortTies>>

\* a direct call of recall_full_memory
call_recall_full_memory(memory_id) ==
    /\ pc = "constructed"
    /\ last' = Call("recall_full_memory", memory_id, "return", "",
                    recall_full_memory(memory_id), None)
    /\ UNCHANGED <<env, settings, initialized, pc, loaded, argsortTies>>

----------------------------------------------------------------------------
(* __init__, lines 26-73, and initialize, lines 75-78 *)

\* self.settings.get(key): None when the key is missing
settings_get(key) == settings[key]

\* pd.read_csv(path) and np.load(path): raise on a None path or a missing
\* file, and the except clause stores None
load(path) ==
    IF path = None THEN None
    ELSE IF path[1] \in DOMAIN env.files THEN env.files[path[1]]
    ELSE None

\* SentenceTransformer(model_name): env.model is what the call yields on
\* this host, None when it raises
load_model(name) == env.model

\* line 72: `None in [cleaned_data, embeddings, original_data, model]`.
\* The list is walked from its first element with `is` and then `==`.
\* A None cleaned_data ends the walk with True; a DataFrame is compared by
\* DataFrame.__eq__, whose result has no truth value: ValueError.  The
\* other three elements are never reached.
none_in_list == IF cleaned_data' = None THEN "true" ELSE "raise"

init ==
    /\ pc = "new"
    /\ top_n' = settings_get("top_n")
    /\ similarity_threshold' = settings_get("similarity_threshold")
    /\ cleaned_data' = load(settings_get("cleaned_data_path"))
    /\ embeddings' = load(settings_get("embeddings_path"))
    /\ original_data' = load(settings_get("original_data_path"))
    /\ model' = load_model(settings_get("model_name"))
    /\ IF none_in_list = "true"
       THEN /\ pc' = "constructed"
            /\ last' = Call("__init__", "", "return", "", <<>>,
                            Some(Dialog("error_initialization", None)))
       ELSE /\ pc' = "raised"
            /\ last' = Call("__init__", "", "raise", "ValueError", <<>>, None)
    /\ UNCHANGED <<env, settings, initialized, argsortTies>>

\* self.settings.merge(DEFAULT_SETTINGS, new_only=True)
merge(old, new) == [k \in SettingKeys |-> IF old[k] = None THEN Some(new[k]) ELSE old[k]]

initialize ==
    /\ pc # "raised"
    /\ ~initialized
    /\ settings' = merge(settings, DEFAULT_SETTINGS)
    /\ initialized' = TRUE
    /\ UNCHANGED <<env, pc, loaded, argsortTies, last>>

----------------------------------------------------------------------------
(* The skill as shipped *)

HostPaths == {"cleaned.csv", "embeddings.npy", "original.csv"}

HostValue(k, n) ==
    CASE k = "cleaned_data_path" -> "cleaned.csv"
      [] k = "embeddings_path" -> "embeddings.npy"
      [] k = "original_data_path" -> "original.csv"
      [] k = "top_n" -> n
      [] k = "similarity_threshold" -> 5
      [] k = "model_name" -> "all-MiniLM-L6-v2"

HostSettings(missing, n) ==
    [k \in SettingKeys |-> IF k \in missing THEN None ELSE Some(HostValue(k, n))]

\* the cleaned table of n rows: Timestamps T1, T2, T1, ...
Table(n) == [i \in 1..n |-> IF i % 2 = 1 THEN "T1" ELSE "T2"]

Tables == {Table(n) : n \in 0..MaxRows}

Matrices == SeqsUpTo(Vectors, MaxRows)

OriginalRows == [Timestamp : Timestamps, Memory_Description : Descriptions]

OriginalTables == SeqsUpTo(OriginalRows, MaxOrigRows)

Scenario3 == <<[Timestamp |-> "T1", Memory_Description |-> "birthday party"]>>

Init ==
    /\ \E missing \in SUBSET SettingKeys, n \in 1..MaxTopN :
          /\ settings = HostSettings(missing, n)
          /\ \E c \in {None, Some(Table(2))},
                e \in {None, Some(<<<<10, 0>>, <<0, 10>>>>)},
                o \in {None, Some(Scenario3)},
                m \in {None, Some("all-MiniLM-L6-v2")} :
                env = [settings |-> settings,
                       files |-> [p \in HostPaths |->
                                     CASE p = "cleaned.csv" -> c
                                       [] p = "embeddings.npy" -> e
                                       [] p = "original.csv" -> o],
                       model |-> m]
    /\ initialized = FALSE
    /\ pc = "new"
    /\ cleaned_data = None
    /\ embeddings = None
    /\ original_data = None
    /\ model = None
    /\ top_n = None
    /\ similarity_threshold = None
    /\ argsortTies \in {"low_first", "high_first"}
    /\ last = NoCall

Next ==
    \/ init
    \/ initialize
    \/ \E query \in Queries : handle_do_you_recall_intent(query)
    \/ handle_robotic_laws_intent

Spec == Init /\ [][Next]_vars

----------------------------------------------------------------------------
(* The methods on an instance whose fields hold what lines 38-69 can assign *)

BigRows == DEFAULT_top_n + 1

BigTable == Table(BigRows)

BigMatrix == [i \in 1..BigRows |-> IF i % 2 = 1 THEN <<10, 0>> ELSE <<7, 7>>]

InitLoaded ==
    /\ settings = HostSettings({}, 1)
    /\ env = [settings |-> settings, files |-> [p \in HostPaths |-> None], model |-> None]
    /\ initialized = TRUE
    /\ pc = "constructed"
    /\ \/ /\ cleaned_data \in {Some(t) : t \in Tables \cup {BigTable}}
          /\ embeddings \in {Some(e) : e \in Matrices \cup {BigMatrix}}
          /\ original_data = Some(Scenario3)
          /\ model = Some("all-MiniLM-L6-v2")
          /\ top_n \in {None} \cup {Some(n) : n \in 1..MaxTopN}
          /\ similarity_threshold = Some(5)
       \/ /\ cleaned_data \in {None, Some(Table(2))}
          /\ embeddings \in {None, Some(<<<<10, 0>>, <<0, 10>>>>)}
          /\ original_data \in {None, Some(Scenario3)}
          /\ model \in {None, Some("all-MiniLM-L6-v2")}
          /\ top_n \in {None} \cup {Some(n) : n \in 1..MaxTopN}
          /\ similarity_threshold \in {None, Some(5)}
       \/ /\ cleaned_data = Some(Table(2))
          /\ embeddings = Some(<<<<10, 0>>, <<0, 10>>>>)
          /\ original_data \in {Some(t) : t \in OriginalTables}
          /\ model = Some("all-MiniLM-L6-v2")
          /\ top_n = Some(1)
          /\ similarity_threshold = Some(5)
    /\ argsortTies \in {"low_first", "high_first"}
    /\ last = NoCall

NextLoaded ==
    \/ \E query \in Queries : call_find_closest_memory(query)
    \/ \E memory_id \in Timestamps : call_recall_full_memory(memory_id)
    \/ \E query \in Queries : handle_do_you_recall_intent(query)
    \/ handle_robotic_laws_intent

SpecLoaded == InitLoaded /\ [][NextLoaded]_vars

----------------------------------------------------------------------------
(* Properties *)

Rows(table) == IF table = None THEN 0 ELSE Len(table[1])

NonIncreasing(found) ==
    \A p \in DOMAIN found, r \in DOMAIN found : p < r => found[p].score >= found[r].score

\* the configured result count: the setting, or the default when it is missing
ConfiguredTopN == IF top_n = None THEN DEFAULT_top_n ELSE top_n[1]

\* C1: with the table, the matrix and the model loaded, what
\* find_closest_memory returns has non-increasing scores and at most
\* min(top_n, number of memory rows) elements.
C1_SortedAndBounded ==
    (/\ last.op = "find_closest_memory"
     /\ last.status = "return"
     /\ cleaned_data # None /\ embeddings # None /\ model # None)
    => /\ NonIncreasing(last.value)
       /\ Len(last.value) <= Min(ConfiguredTopN, Rows(cleaned_data))

\* C2: with the matrix or the table missing, find_closest_memory returns
\* the empty list for every query and does not raise, whatever the model
\* and the original table are.
C2_FailsSoft ==
    (last.op = "find_closest_memory" /\ (embeddings = None \/ cleaned_data = None))
    => last.status = "return" /\ last.value = <<>>

C2_Witness ==
    /\ last.op = "find_closest_memory"
    /\ last.arg = ""
    /\ embeddings = None
    /\ cleaned_data # None
    /\ model = None
    /\ last.value = <<>>

\* C3: recall_full_memory(k) returns the Memory_Description of the first
\* row of the original table whose Timestamp is k, and None when no row
\* matches or the table is missing.
C3_FirstMatch ==
    last.op = "recall_full_memory"
    => /\ last.status = "return"
       /\ IF original_data = None
             \/ \A i \in DOMAIN original_data[1] : original_data[1][i].Timestamp # last.arg
          THEN last.value = None
          ELSE \E i \in DOMAIN original_data[1] :
                  /\ original_data[1][i].Timestamp = last.arg
                  /\ \A j \in 1..(i - 1) : original_data[1][j].Timestamp # last.arg
                  /\ last.value = Some(original_data[1][i].Memory_Description)

C3_Witness ==
    /\ last.op = "recall_full_memory"
    /\ original_data # None
    /\ Len(original_data[1]) = 2
    /\ original_data[1][1].Timestamp = last.arg
    /\ original_data[1][2].Timestamp = last.arg
    /\ original_data[1][1].Memory_Description # original_data[1][2].Memory_Description
    /\ last.value = Some(original_data[1][1].Memory_Description)

\* C4: when find_closest_memory returns the empty list, the recall handler
\* speaks no_memory_found and not recite_memory.
C4_NoMemoryFound ==
    (/\ last.op = "handle_do_you_recall_intent"
     /\ find_closest_memory(last.arg) = Returned(<<>>))
    => last.status = "return" /\ last.speak = Some(Dialog("no_memory_found", None))

C4_Witness ==
    /\ last.op = "handle_do_you_recall_intent"
    /\ last.arg = ""
    /\ find_closest_memory(last.arg) = Returned(<<>>)
    /\ last.speak = Some(Dialog("no_memory_found", None))

\* C5: on a non-empty result the handler resolves the Timestamp of the first
\* element and speaks the text; when the resolution is None it speaks a
\* "not found" dialog, not recite_memory with a None memory.
C5_AbsentNotRecited ==
    (/\ last.op = "handle_do_you_recall_intent"
     /\ last.status = "return"
     /\ last.value # <<>>)
    => /\ last.speak # None
       /\ LET full_memory == recall_full_memory(last.value[1].Timestamp)
          IN  IF full_memory = None
              THEN last.speak[1].dialog # "recite_memory"
              ELSE last.speak = Some(Dialog("recite_memory", full_memory))

Artifacts == <<cleaned_data, embeddings, original_data, model>>

\* C6: construction never raises, leaves every artifact whose load failed
\* at None, and speaks error_initialization exactly when one of them failed.
C6_ConstructionDegrades ==
    last.op = "__init__"
    => /\ last.status = "return"
       /\ env.files["cleaned.csv"] = None => cleaned_data = None
       /\ env.files["embeddings.npy"] = None => embeddings = None
       /\ env.files["original.csv"] = None => original_data = None
       /\ env.model = None => model = None
       /\ last.speak = Some(Dialog("error_initialization", None))
             <=> \E i \in 1..4 : Artifacts[i] = None

\* C7: a recall intent never ends in an exception, whichever artifacts are
\* missing and however many rows the matrix and the table have.
C7_HandlerNeverRaises ==
    last.op = "handle_do_you_recall_intent" => last.status = "return"

\* C8: with top_n missing from the host's settings, the retriever uses the
\* default once __init__ and initialize have both run, in either order.
C8_DefaultTopN ==
    (pc = "constructed" /\ initialized /\ env.settings["top_n"] = None)
    => /\ top_n = Some(DEFAULT_top_n)
       /\ \A query \in Queries : Len(find_closest_memory(query).value) <= DEFAULT_top_n

\* C9: rows with equal scores come out lower row index first, and of two
\* such rows at the top_n cut-off the lower index is the one kept.
C9_TiesByRowOrder ==
    (last.op = "find_closest_memory" /\ last.status = "return" /\ last.value # <<>>)
    => /\ \A p \in DOMAIN last.value, r \in DOMAIN last.value :
             (p < r /\ last.value[p].score = last.value[r].score)
             => last.value[p].row < last.value[r].row
       /\ \A p \in DOMAIN last.value, i \in DOMAIN embeddings[1] :
             (/\ \A r \in DOMAIN last.value : last.value[r].row # i
              /\ Dot(embeddings[1][i], Encode(last.arg)) = last.value[p].score)
             => last.value[p].row < i

\* C10: no intent changes the loaded state, so find_closest_memory gives the
\* same answer to the same query before and after every intent.
C10_LoadedStateFrozen ==
    [][pc = "constructed"
       => /\ loaded' = loaded
          /\ \A query \in Queries : find_closest_memory(query)' = find_closest_memory(query)]_vars

C10_Witness ==
    /\ last.op = "handle_do_you_recall_intent"
    /\ last.speak # None
    /\ last.speak[1].dialog = "recite_memory"
    /\ last.speak[1].memory # None
    /\ Len(last.value) > 1

====
